---- MODULE Spec2Model ----
(***************************************************************************)
(* The java.lang.Runtime native bridge (libjava/Runtime.c): ten JNI entry  *)
(* points, each of which forwards to one JVM_* engine service.  The engine *)
(* services themselves live in the virtual machine, outside this file, and *)
(* are modelled from their documented contract.                            *)
(***************************************************************************)
EXTENDS Integers, Sequences, FiniteSets, TLC

\* ------------------------------------------------------------- bounds
MaxHeap == 2
MaxProcs == 2
MaxStale == 1
MaxCap == 2

\* ------------------------------------------------------------- universe
NULL == "null"
Threads == {"t1", "t2"}
MainThread == "t1"
Objects == {"o1", "o2", "o3"}
Fields == {"f1", "f2"}
Handles == Objects \cup Fields
Buffers == 0..MaxCap

MemoryOps == {"freeMemory", "totalMemory", "maxMemory", "gc", "availableProcessors"}
ObjectOps == {"sizeOf", "getReferencedObjects"}
FieldOps == {"addressOf", "fieldOffsetOf", "fieldSizeOf"}
IntrospectionOps == ObjectOps \cup FieldOps
Ops == MemoryOps \cup IntrospectionOps
ReadOnlyOps == Ops \ {"gc", "getReferencedObjects"}

VARIABLES mem, procs, stale, rawAddr, bufs, pc, call, result, forwarded, retained

engine == <<mem, procs, stale, rawAddr>>
frames == <<pc, call, result, forwarded>>
vars == <<mem, procs, stale, rawAddr, bufs, pc, call, result, forwarded, retained>>

\* ------------------------------------------------------------- engine (virtual machine) side
UnboundedSentinel == 2147483647

MemStates ==
    {m \in [free : 0..MaxHeap, total : 1..MaxHeap, max : (1..MaxHeap) \cup {UnboundedSentinel}] :
        m.free <= m.total /\ m.total <= m.max}

Refs(obj) ==
    CASE obj = "o1" -> <<>>
      [] obj = "o2" -> <<"o3">>
      [] obj = "o3" -> <<"o1", "o2">>

ShallowSize(obj) ==
    CASE obj = "o1" -> 16
      [] obj = "o2" -> 24
      [] obj = "o3" -> 32

FieldOffset(field) == IF field = "f1" THEN 16 ELSE 24

FieldSize(field) == IF field = "f1" THEN 8 ELSE 4

FieldAddress(field) == 4096 + FieldOffset(field)

LiveObject(h) == h \in Objects \ stale

LiveField(h) == h \in Fields \ stale

Returns(v) == [ret |-> v, exc |-> "none", mem |-> mem, bufs |-> bufs]

Signals(e) == [ret |-> 0, exc |-> e, mem |-> mem, bufs |-> bufs]

JVM_FreeMemory == {Returns(mem.free)}

JVM_TotalMemory == {Returns(mem.total)}

JVM_MaxMemory == {Returns(mem.max)}

JVM_GC == {[Returns(0) EXCEPT !.mem.free = f] : f \in mem.free..mem.total}

JVM_ActiveProcessorCount == {Returns(procs)}

JVM_SizeOf(obj) ==
    IF LiveObject(obj) THEN {Returns(ShallowSize(obj))} ELSE {Signals("InvalidHandle")}

JVM_GetReferencedObjects(env, obj, ref_buf) ==
    IF ~LiveObject(obj) THEN {Signals("InvalidHandle")}
    ELSE LET refs == Refs(obj)
             old == bufs[ref_buf]
             new == [i \in 1..Len(old) |-> IF i <= Len(refs) THEN refs[i] ELSE old[i]]
         IN {[Returns(Len(refs)) EXCEPT !.bufs[ref_buf] = new]}

JVM_AddressOf(field) ==
    IF ~LiveField(field) THEN {Signals("InvalidHandle")}
    ELSE IF ~rawAddr THEN {Signals("UnsupportedOperation")}
    ELSE {Returns(FieldAddress(field))}

JVM_FieldOffsetOf(field) ==
    IF LiveField(field) THEN {Returns(FieldOffset(field))} ELSE {Signals("InvalidHandle")}

JVM_FieldSizeOf(field) ==
    IF LiveField(field) THEN {Returns(FieldSize(field))} ELSE {Signals("InvalidHandle")}

\* ------------------------------------------------------------- the bridge (Runtime.c)
\* "return JVM_X(args);": the service is invoked once, and what it produced
\* (value, pending exception, engine effects) is what the caller gets.
Forward(svc, args, outcomes) ==
    {[ret |-> o.ret, exc |-> o.exc, mem |-> o.mem, bufs |-> o.bufs,
      fwd |-> <<[svc |-> svc, args |-> args, ret |-> o.ret, exc |-> o.exc]>>,
      retained |-> retained] : o \in outcomes}

Java_java_lang_Runtime_freeMemory(env, this) ==
    Forward("JVM_FreeMemory", <<>>, JVM_FreeMemory)

Java_java_lang_Runtime_totalMemory(env, this) ==
    Forward("JVM_TotalMemory", <<>>, JVM_TotalMemory)

\* A copy-and-paste slip: maxMemory forwards to the free-memory service.
Mut_maxMemory_FreeService(env, this) ==
    Forward("JVM_FreeMemory", <<>>, JVM_FreeMemory)

Java_java_lang_Runtime_maxMemory(env, this) ==
    Forward("JVM_MaxMemory", <<>>, JVM_MaxMemory)

\* The request is repeated until a collection frees something: nothing comes
\* back while the heap has nothing more to free.
Mut_gc_UntilFreed(env, this) ==
    {o \in Forward("JVM_GC", <<>>, JVM_GC) : o.mem.free > mem.free}

Java_java_lang_Runtime_gc(env, this) ==
    Forward("JVM_GC", <<>>, JVM_GC)

\* A copy-and-paste slip: availableProcessors forwards to the free-memory service.
Mut_availableProcessors_FreeService(env, this) ==
    Forward("JVM_FreeMemory", <<>>, JVM_FreeMemory)

Java_java_lang_Runtime_availableProcessors(env, this) ==
    Forward("JVM_ActiveProcessorCount", <<>>, JVM_ActiveProcessorCount)

\* The receiver is passed on in place of the argument.
Mut_sizeOf0_PassesThis(env, this, obj) ==
    Forward("JVM_SizeOf", <<this>>, JVM_SizeOf(this))

\* The argument goes through a file-scope slot that another in-flight call overwrites.
Mut_sizeOf0_SharedSlot(env, this, obj) ==
    LET others == {u \in Threads \ {env} : pc[u] = "called" /\ call[u].op = "sizeOf"}
        slot == IF others = {} THEN obj ELSE call[CHOOSE u \in others : TRUE].arg
    IN Forward("JVM_SizeOf", <<slot>>, JVM_SizeOf(slot))

\* The handle is kept in the bridge's own storage after the call.
Mut_sizeOf0_KeepsHandle(env, this, obj) ==
    {[o EXCEPT !.retained = retained \cup {obj}] :
        o \in Forward("JVM_SizeOf", <<obj>>, JVM_SizeOf(obj))}

Java_java_lang_Runtime_sizeOf0(env, this, obj) ==
    Forward("JVM_SizeOf", <<obj>>, JVM_SizeOf(obj))

\* The count is clamped to what fitted into the buffer.
Mut_getReferences0_Clamped(env, this, obj, ref_buf) ==
    {[o EXCEPT !.ret = IF @ > Len(bufs[ref_buf]) THEN Len(bufs[ref_buf]) ELSE @] :
        o \in Forward("JVM_GetReferencedObjects", <<obj, ref_buf>>,
                      JVM_GetReferencedObjects(env, obj, ref_buf))}

\* The buffer is wiped when the service fails.
Mut_getReferences0_WipesOnFailure(env, this, obj, ref_buf) ==
    {[o EXCEPT !.bufs[ref_buf] = IF o.exc # "none" THEN [i \in 1..Len(@) |-> NULL] ELSE @] :
        o \in Forward("JVM_GetReferencedObjects", <<obj, ref_buf>>,
                      JVM_GetReferencedObjects(env, obj, ref_buf))}

Java_java_lang_Runtime_getReferences0(env, this, obj, ref_buf) ==
    Forward("JVM_GetReferencedObjects", <<obj, ref_buf>>,
            JVM_GetReferencedObjects(env, obj, ref_buf))

\* A failure of the service is swallowed and 0 returned in its place.
Mut_addressOf0_Fallback(env, this, field) ==
    {[o EXCEPT !.ret = IF o.exc # "none" THEN 0 ELSE @, !.exc = "none"] :
        o \in Forward("JVM_AddressOf", <<field>>, JVM_AddressOf(field))}

Java_java_lang_Runtime_addressOf0(env, this, field) ==
    Forward("JVM_AddressOf", <<field>>, JVM_AddressOf(field))

Java_java_lang_Runtime_fieldOffsetOf0(env, this, field) ==
    Forward("JVM_FieldOffsetOf", <<field>>, JVM_FieldOffsetOf(field))

\* A copy-and-paste slip: fieldSizeOf forwards to the offset service.
Mut_fieldSizeOf0_OffsetService(env, this, field) ==
    Forward("JVM_FieldOffsetOf", <<field>>, JVM_FieldOffsetOf(field))

Java_java_lang_Runtime_fieldSizeOf0(env, this, field) ==
    Forward("JVM_FieldSizeOf", <<field>>, JVM_FieldSizeOf(field))

\* ------------------------------------------------------------- caller frames
NoCall == [op |-> "none", arg |-> NULL, buf |-> 0]

NoResult == [ret |-> 0, exc |-> "none"]

ArgsOf(o) ==
    IF o \in ObjectOps THEN Objects \cup {NULL}
    ELSE IF o \in FieldOps THEN Fields \cup {NULL}
    ELSE {NULL}

BufsOf(o) == IF o = "getReferencedObjects" THEN Buffers ELSE {0}

Init ==
    /\ mem = [free |-> 0, total |-> 1, max |-> MaxHeap]
    /\ procs = 1
    /\ stale = {}
    /\ rawAddr \in BOOLEAN
    /\ bufs = [c \in Buffers |-> [i \in 1..c |-> NULL]]
    /\ pc = [t \in Threads |-> "idle"]
    /\ call = [t \in Threads |-> NoCall]
    /\ result = [t \in Threads |-> NoResult]
    /\ forwarded = [t \in Threads |-> <<>>]
    /\ retained = {}

\* The managed caller enters a native method with its arguments.
Invoke(t, o, a, b) ==
    /\ pc[t] = "idle"
    /\ pc' = [pc EXCEPT ![t] = "called"]
    /\ call' = [call EXCEPT ![t] = [op |-> o, arg |-> a, buf |-> b]]
    /\ UNCHANGED <<engine, bufs, result, forwarded, retained>>

\* The native method body runs on the calling thread and returns.
Complete(t, o, outcomes) ==
    /\ pc[t] = "called"
    /\ call[t].op = o
    /\ \E out \in outcomes :
        /\ pc' = [pc EXCEPT ![t] = "returned"]
        /\ result' = [result EXCEPT ![t] = [ret |-> out.ret, exc |-> out.exc]]
        /\ forwarded' = [forwarded EXCEPT ![t] = out.fwd]
        /\ mem' = out.mem
        /\ bufs' = out.bufs
        /\ retained' = out.retained
    /\ UNCHANGED <<procs, stale, rawAddr, call>>

freeMemory(t, this) ==
    Complete(t, "freeMemory", Java_java_lang_Runtime_freeMemory(t, this))

totalMemory(t, this) ==
    Complete(t, "totalMemory", Java_java_lang_Runtime_totalMemory(t, this))

maxMemory(t, this) ==
    Complete(t, "maxMemory", Java_java_lang_Runtime_maxMemory(t, this))

gc(t, this) ==
    Complete(t, "gc", Java_java_lang_Runtime_gc(t, this))

availableProcessors(t, this) ==
    Complete(t, "availableProcessors", Java_java_lang_Runtime_availableProcessors(t, this))

sizeOf(t, this) ==
    Complete(t, "sizeOf", Java_java_lang_Runtime_sizeOf0(t, this, call[t].arg))

getReferencedObjects(t, this) ==
    Complete(t, "getReferencedObjects",
             Java_java_lang_Runtime_getReferences0(t, this, call[t].arg, call[t].buf))

addressOf(t, this) ==
    Complete(t, "addressOf", Java_java_lang_Runtime_addressOf0(t, this, call[t].arg))

fieldOffsetOf(t, this) ==
    Complete(t, "fieldOffsetOf", Java_java_lang_Runtime_fieldOffsetOf0(t, this, call[t].arg))

fieldSizeOf(t, this) ==
    Complete(t, "fieldSizeOf", Java_java_lang_Runtime_fieldSizeOf0(t, this, call[t].arg))

\* The caller takes the result and leaves the frame.
Return(t) ==
    /\ pc[t] = "returned"
    /\ pc' = [pc EXCEPT ![t] = "idle"]
    /\ call' = [call EXCEPT ![t] = NoCall]
    /\ result' = [result EXCEPT ![t] = NoResult]
    /\ forwarded' = [forwarded EXCEPT ![t] = <<>>]
    /\ UNCHANGED <<engine, bufs, retained>>

\* ------------------------------------------------------------- engine activity
EngineMemoryChange(m) ==
    /\ m # mem
    /\ mem' = m
    /\ UNCHANGED <<procs, stale, rawAddr, bufs, frames, retained>>

ProcessorSetChange(n) ==
    /\ n # procs
    /\ procs' = n
    /\ UNCHANGED <<mem, stale, rawAddr, bufs, frames, retained>>

InvalidateHandle(h) ==
    /\ h \notin stale
    /\ Cardinality(stale) < MaxStale
    /\ stale' = stale \cup {h}
    /\ UNCHANGED <<mem, procs, rawAddr, bufs, frames, retained>>

\* ------------------------------------------------------------- specifications
MemoryCalls(t) ==
    \/ \E o \in MemoryOps : Invoke(t, o, NULL, 0)
    \/ \E this \in Objects : freeMemory(t, this)
    \/ \E this \in Objects : totalMemory(t, this)
    \/ \E this \in Objects : maxMemory(t, this)
    \/ \E this \in Objects : gc(t, this)
    \/ \E this \in Objects : availableProcessors(t, this)
    \/ Return(t)

IntrospectionCalls(t) ==
    \/ \E o \in IntrospectionOps : \E a \in ArgsOf(o) : \E b \in BufsOf(o) : Invoke(t, o, a, b)
    \/ \E this \in Objects : sizeOf(t, this)
    \/ \E this \in Objects : getReferencedObjects(t, this)
    \/ \E this \in Objects : addressOf(t, this)
    \/ \E this \in Objects : fieldOffsetOf(t, this)
    \/ \E this \in Objects : fieldSizeOf(t, this)

\* One caller thread, every operation; processors come and go and handles go
\* stale, while the heap changes only through the caller's own gc requests.
Next ==
    \/ MemoryCalls(MainThread)
    \/ IntrospectionCalls(MainThread)
    \/ \E n \in 1..MaxProcs : ProcessorSetChange(n)
    \/ \E h \in Handles : InvalidateHandle(h)

Spec == Init /\ [][Next]_vars

\* Several caller threads on every operation; the engine changes only through
\* their calls (a gc request may free memory, an enumeration fills a buffer).
NextConcurrent ==
    \E t \in Threads : MemoryCalls(t) \/ IntrospectionCalls(t)

SpecConcurrent == Init /\ [][NextConcurrent]_vars

\* Several caller threads on the memory and processor queries, with engine activity.
NextMemory ==
    \/ \E t \in Threads : MemoryCalls(t)
    \/ \E m \in MemStates : EngineMemoryChange(m)
    \/ \E n \in 1..MaxProcs : ProcessorSetChange(n)

SpecMemory == Init /\ [][NextMemory]_vars

\* Several caller threads on the memory queries; every gc request that has
\* entered the bridge gets to run on its thread.
FairSpecMemory ==
    SpecMemory /\ \A t \in Threads : WF_vars(\E this \in Objects : gc(t, this))

\* ------------------------------------------------------------- properties
Stepped(t, o) == pc[t] = "called" /\ pc'[t] = "returned" /\ call[t].op = o

Returned(t, o) == pc[t] = "returned" /\ call[t].op = o

Min(a, b) == IF a <= b THEN a ELSE b

IsNull(v) == v = NULL

\* The 1:1 table of operations and engine services.
ServiceName(o) ==
    CASE o = "freeMemory" -> "JVM_FreeMemory"
      [] o = "totalMemory" -> "JVM_TotalMemory"
      [] o = "maxMemory" -> "JVM_MaxMemory"
      [] o = "gc" -> "JVM_GC"
      [] o = "availableProcessors" -> "JVM_ActiveProcessorCount"
      [] o = "sizeOf" -> "JVM_SizeOf"
      [] o = "getReferencedObjects" -> "JVM_GetReferencedObjects"
      [] o = "addressOf" -> "JVM_AddressOf"
      [] o = "fieldOffsetOf" -> "JVM_FieldOffsetOf"
      [] o = "fieldSizeOf" -> "JVM_FieldSizeOf"

\* What the engine service behind operation o produces when called directly.
EngineService(o, env, a, b) ==
    CASE o = "freeMemory" -> JVM_FreeMemory
      [] o = "totalMemory" -> JVM_TotalMemory
      [] o = "maxMemory" -> JVM_MaxMemory
      [] o = "gc" -> JVM_GC
      [] o = "availableProcessors" -> JVM_ActiveProcessorCount
      [] o = "sizeOf" -> JVM_SizeOf(a)
      [] o = "getReferencedObjects" -> JVM_GetReferencedObjects(env, a, b)
      [] o = "addressOf" -> JVM_AddressOf(a)
      [] o = "fieldOffsetOf" -> JVM_FieldOffsetOf(a)
      [] o = "fieldSizeOf" -> JVM_FieldSizeOf(a)

\* The handles the caller gave, as the service is to receive them.
HandlesOf(c) ==
    IF c.op = "getReferencedObjects" THEN <<c.arg, c.buf>>
    ELSE IF c.op \in IntrospectionOps THEN <<c.arg>>
    ELSE <<>>

\* The entry point behind operation o.
Bridge(o, env, this, a, b) ==
    CASE o = "freeMemory" -> Java_java_lang_Runtime_freeMemory(env, this)
      [] o = "totalMemory" -> Java_java_lang_Runtime_totalMemory(env, this)
      [] o = "maxMemory" -> Java_java_lang_Runtime_maxMemory(env, this)
      [] o = "gc" -> Java_java_lang_Runtime_gc(env, this)
      [] o = "availableProcessors" -> Java_java_lang_Runtime_availableProcessors(env, this)
      [] o = "sizeOf" -> Java_java_lang_Runtime_sizeOf0(env, this, a)
      [] o = "getReferencedObjects" -> Java_java_lang_Runtime_getReferences0(env, this, a, b)
      [] o = "addressOf" -> Java_java_lang_Runtime_addressOf0(env, this, a)
      [] o = "fieldOffsetOf" -> Java_java_lang_Runtime_fieldOffsetOf0(env, this, a)
      [] o = "fieldSizeOf" -> Java_java_lang_Runtime_fieldSizeOf0(env, this, a)

\* C1: a getReferencedObjects call on a live object with k direct references
\* and a buffer of capacity c returns k without error (also when k > c), leaves
\* the first min(k, c) slots holding the first references found and every other
\* slot of every buffer as it was; with k = 0 it returns 0 and no slot changes.
C1_ReferencesCountedAndFilled ==
    [][\A t \in Threads :
        (Stepped(t, "getReferencedObjects") /\ LiveObject(call[t].arg)) =>
            LET refs == Refs(call[t].arg)
                k == Len(refs)
                b == call[t].buf
                c == Len(bufs[b])
            IN /\ result'[t] = [ret |-> k, exc |-> "none"]
               /\ Len(bufs'[b]) = c
               /\ \A i \in 1..c :
                    bufs'[b][i] = IF i <= Min(k, c) THEN refs[i] ELSE bufs[b][i]
               /\ \A other \in Buffers \ {b} : bufs'[other] = bufs[other]
               /\ (k = 0 => bufs' = bufs)]_vars

\* A truncated enumeration has returned: more references than slots, and the
\* slots there are hold references.
C1_Witness ==
    \E t \in Threads :
        /\ Returned(t, "getReferencedObjects")
        /\ result[t].exc = "none"
        /\ Len(bufs[call[t].buf]) >= 1
        /\ result[t].ret > Len(bufs[call[t].buf])
        /\ \A i \in 1..Len(bufs[call[t].buf]) : ~IsNull(bufs[call[t].buf][i])

\* C2: an introspection operation called with a null or stale handle fails
\* with InvalidHandle, and every buffer and the memory state are after the call
\* what they were before it.
C2_InvalidHandleFailsCleanly ==
    [][\A t \in Threads : \A o \in IntrospectionOps :
        (Stepped(t, o) /\ (IsNull(call[t].arg) \/ call[t].arg \in stale)) =>
            /\ result'[t].exc = "InvalidHandle"
            /\ bufs' = bufs
            /\ mem' = mem]_vars

\* getReferencedObjects has failed on a handle that went stale, with a buffer
\* that held references from an earlier call.
C2_Witness ==
    \E t \in Threads :
        /\ Returned(t, "getReferencedObjects")
        /\ call[t].arg \in stale
        /\ result[t].exc = "InvalidHandle"
        /\ \E i \in 1..Len(bufs[call[t].buf]) : ~IsNull(bufs[call[t].buf][i])

\* C3 as stated: every memory query returns a non-negative integer, and a
\* totalMemory result is at most a maxMemory result that is not the sentinel,
\* for any two calls, whatever the engine did between them.
C3_AcrossSeparateCalls ==
    /\ \A t \in Threads : \A o \in {"freeMemory", "totalMemory", "maxMemory"} :
        Returned(t, o) => result[t].ret >= 0
    /\ \A t, u \in Threads :
        (Returned(t, "totalMemory") /\ Returned(u, "maxMemory")
            /\ result[u].ret # UnboundedSentinel) => result[t].ret <= result[u].ret

\* C3 amended: every memory query returns a non-negative integer, and in
\* every engine state what totalMemory returns is at most what maxMemory
\* returns there, unless that is the sentinel.
C3_WithinOneEngineState ==
    /\ \A t \in Threads : \A o \in {"freeMemory", "totalMemory", "maxMemory"} :
        Returned(t, o) => (result[t].ret >= 0 /\ result[t].exc = "none")
    /\ \A this \in Objects :
        \A tot \in Java_java_lang_Runtime_totalMemory(MainThread, this) :
        \A max \in Java_java_lang_Runtime_maxMemory(MainThread, this) :
            /\ tot.ret >= 0
            /\ max.ret >= 0
            /\ (max.ret # UnboundedSentinel => tot.ret <= max.ret)

\* Two threads hold a totalMemory and a bounded maxMemory result that were
\* both read from the engine's present memory state, after it had grown.
C3_Witness ==
    \E t, u \in Threads :
        /\ Returned(t, "totalMemory") /\ result[t].ret = mem.total
        /\ Returned(u, "maxMemory") /\ result[u].ret = mem.max
        /\ mem.max # UnboundedSentinel
        /\ mem.total = MaxHeap

\* C4: availableProcessors returns an integer >= 1 without error, in every
\* state any sequence of calls and processor-set changes leads to.
C4_AtLeastOneProcessor ==
    /\ \A t \in Threads :
        Returned(t, "availableProcessors") => (result[t].ret >= 1 /\ result[t].exc = "none")
    /\ \A t \in Threads : \A this \in Objects :
        \A o \in Java_java_lang_Runtime_availableProcessors(t, this) :
            o.ret >= 1 /\ o.exc = "none"

\* availableProcessors has returned a count that differs from the one the
\* process started with: the processor set changed before the call.
C4_Witness ==
    \E t \in Threads :
        Returned(t, "availableProcessors") /\ result[t].ret = MaxProcs /\ result[t].ret > 1

\* C5: a gc call that has entered the bridge eventually returns to its
\* thread; it returns no value and raises no error, whether or not the engine
\* collected anything.
C5_GcReturns ==
    \A t \in Threads :
        /\ [](Returned(t, "gc") => result[t] = NoResult)
        /\ ((pc[t] = "called" /\ call[t].op = "gc") ~> Returned(t, "gc"))

\* A gc call has returned from a heap that had nothing left to free.
C5_Witness ==
    \E t \in Threads :
        /\ Returned(t, "gc")
        /\ forwarded[t] = <<[svc |-> "JVM_GC", args |-> <<>>, ret |-> 0, exc |-> "none"]>>
        /\ mem.free = mem.total

\* C6: with several threads calling in any interleaving, the bridge keeps
\* nothing of its own, a step of one thread's call leaves every other
\* thread's frame alone, and what a read-only operation returns is what its
\* engine service answers for the caller's own argument in the engine state
\* of that step, which it leaves unchanged.
C6_ResultFromEngineStateAlone ==
    [][/\ retained' = {}
       /\ \A t \in Threads : \A o \in Ops :
            Stepped(t, o) =>
                \A u \in Threads \ {t} :
                    /\ pc'[u] = pc[u]
                    /\ call'[u] = call[u]
                    /\ result'[u] = result[u]
                    /\ forwarded'[u] = forwarded[u]
       /\ \A t \in Threads : \A o \in ReadOnlyOps :
            Stepped(t, o) =>
                /\ result'[t] \in {[ret |-> s.ret, exc |-> s.exc] :
                                     s \in EngineService(o, t, call[t].arg, call[t].buf)}
                /\ mem' = mem
                /\ bufs' = bufs]_vars

\* One thread's sizeOf has returned while another thread's sizeOf, on a
\* different object, is in flight.
C6_Witness ==
    \E t, u \in Threads :
        /\ Returned(t, "sizeOf") /\ result[t].exc = "none"
        /\ pc[u] = "called" /\ call[u].op = "sizeOf"
        /\ call[u].arg \in Objects /\ call[u].arg # call[t].arg

\* C7: when the engine service signalled a failure during a call, it was
\* invoked once only, and the caller has that failure and the service's
\* return value as they were.
C7_FailurePassedThrough ==
    \A t \in Threads :
        (pc[t] = "returned" /\ \E i \in 1..Len(forwarded[t]) : forwarded[t][i].exc # "none") =>
            /\ Len(forwarded[t]) = 1
            /\ result[t].exc = forwarded[t][1].exc
            /\ result[t].ret = forwarded[t][1].ret

\* addressOf on a live field has failed on an engine build without raw addresses.
C7_Witness ==
    \E t \in Threads :
        /\ Returned(t, "addressOf")
        /\ call[t].arg \in Fields \ stale
        /\ result[t].exc = "UnsupportedOperation"

FieldRange(off, size) == off..(off + size - 1)

\* C8: for two distinct live fields of the layout, the byte range that
\* fieldOffsetOf and fieldSizeOf give for one does not meet the range they
\* give for the other, and an offset a caller holds for one starts a range
\* clear of the other's.
C8_FieldRangesDisjoint ==
    \A f, g \in Fields \ stale : f # g =>
        \A this \in Objects :
        \A fo \in Java_java_lang_Runtime_fieldOffsetOf0(MainThread, this, f) :
        \A fs \in Java_java_lang_Runtime_fieldSizeOf0(MainThread, this, f) :
        \A go \in Java_java_lang_Runtime_fieldOffsetOf0(MainThread, this, g) :
        \A gs \in Java_java_lang_Runtime_fieldSizeOf0(MainThread, this, g) :
            /\ FieldRange(fo.ret, fs.ret) \cap FieldRange(go.ret, gs.ret) = {}
            /\ \A t \in Threads :
                (Returned(t, "fieldOffsetOf") /\ call[t].arg = f /\ result[t].exc = "none") =>
                    FieldRange(result[t].ret, fs.ret) \cap FieldRange(go.ret, gs.ret) = {}

\* fieldOffsetOf has returned the offset of one of two live fields.
C8_Witness ==
    \E t \in Threads :
        /\ Returned(t, "fieldOffsetOf")
        /\ result[t].exc = "none"
        /\ Fields \cap stale = {}

\* C9: a call that has returned invoked the one engine service of its
\* operation, once, with the caller's handles as given, and the caller has
\* that service's value and failure as they were; while a call is in flight,
\* what the entry point will produce is the same for every receiver; and the
\* step of a call gives the caller, the memory state and the buffers what a
\* direct call of the service in that engine state gives.
C9_SingleForward ==
    /\ [](\A t \in Threads :
            /\ pc[t] = "returned" =>
                forwarded[t] = <<[svc |-> ServiceName(call[t].op), args |-> HandlesOf(call[t]),
                                  ret |-> result[t].ret, exc |-> result[t].exc]>>
            /\ pc[t] = "called" =>
                \A this, that \in Objects :
                    Bridge(call[t].op, t, this, call[t].arg, call[t].buf)
                        = Bridge(call[t].op, t, that, call[t].arg, call[t].buf))
    /\ [][\A t \in Threads : \A o \in Ops :
            Stepped(t, o) =>
                \E s \in EngineService(o, t, call[t].arg, call[t].buf) :
                    /\ result'[t] = [ret |-> s.ret, exc |-> s.exc]
                    /\ mem' = s.mem
                    /\ bufs' = s.bufs]_vars

\* getReferencedObjects has returned the two references it found.
C9_Witness ==
    \E t \in Threads :
        /\ Returned(t, "getReferencedObjects")
        /\ result[t] = [ret |-> 2, exc |-> "none"]

\* C10: the bridge keeps no handle; a call's step changes neither the
\* processor count, the set of live handles nor the engine build; a
\* read-only operation changes neither memory state nor any buffer; gc
\* changes no buffer; getReferencedObjects changes no memory state and no
\* buffer but the one it was given.
C10_BorrowsAndFrames ==
    [][/\ retained' = {}
       /\ \A t \in Threads : \A o \in Ops :
            Stepped(t, o) =>
                /\ <<procs, stale, rawAddr>>' = <<procs, stale, rawAddr>>
                /\ o \in ReadOnlyOps => (mem' = mem /\ bufs' = bufs)
                /\ o = "gc" => bufs' = bufs
                /\ o = "getReferencedObjects" =>
                    /\ mem' = mem
                    /\ \A b \in Buffers \ {call[t].buf} : bufs'[b] = bufs[b]]_vars

\* sizeOf has returned an object's size while a buffer held references.
C10_Witness ==
    \E t \in Threads :
        /\ Returned(t, "sizeOf")
        /\ result[t].exc = "none"
        /\ \E b \in Buffers : \E i \in 1..Len(bufs[b]) : ~IsNull(bufs[b][i])

====
